---- MODULE Spec2Model ----
(***************************************************************************)
(* EffectorFisher core: the orchestration in main() of                     *)
(* src/effectorfisher_core.py, together with the association-and-ranking   *)
(* components it drives (contingency building, cross-trait reduction,      *)
(* ranking/filtering), which live in utils/ and are modelled from their    *)
(* specification.                                                          *)
(***************************************************************************)
EXTENDS Integers, Sequences, FiniteSets, TLC

(* ------------------------------ universe ------------------------------ *)

NumTraits == 2
MaxMinVariant == 2
MaxLevel == 2

Samples == {"s1", "s2"}
Loci == {1, 2}
Traits == 1..NumTraits

\* p-values in thousandths, prediction scores in hundredths
PValues == {10, 200}

\* defaults of the command line (parse_arguments)
DefaultCyst == 4
DefaultTotalAA == 300
DefaultPredScore == 70
DefaultPValue == 50

\* small value space for the threshold arguments and the candidate attributes
Levels == 1..MaxLevel

(* ------------------------------- state -------------------------------- *)

VARIABLES
    pc,             \* the statement of main() about to run
    args,           \* argparse namespace
    calls,          \* stage operations invoked so far, in order
    printed,        \* messages written to stdout, in order
    saved,          \* output files written, in order
    outcome,        \* what the caller of main() observes
    failed,         \* the stage that failed and the exception it raised
    in_traits,      \* phenotype input: trait -> sample ids with a value
    in_variants,    \* variant input: locus -> samples carrying the variant
    in_predector,   \* predector input: locus -> cysteines, length, score
    in_known,       \* known-effector input: set of loci
    processed_traits,
    variant_df,
    filtered_df,
    hypergeo_tables,
    pvalues,
    lowest_p,
    pred_df,
    merged_df,
    annotated_df,
    known_ranked

vars == <<pc, args, calls, printed, saved, outcome, failed, in_traits,
          in_variants, in_predector, in_known, processed_traits, variant_df,
          filtered_df, hypergeo_tables, pvalues, lowest_p, pred_df, merged_df,
          annotated_df, known_ranked>>

inputs == <<args, in_traits, in_variants, in_predector, in_known>>

Min(S) == CHOOSE x \in S : \A y \in S : x <= y

(* --------------------------- result values ---------------------------- *)

Unset == [tag |-> "unset", rows |-> <<>>]
None == [tag |-> "None", rows |-> <<>>]
DataFrame(rows) == [tag |-> "DataFrame", rows |-> rows]

Running == [kind |-> "running", code |-> 0, exc |-> "none"]
Return(c) == [kind |-> "return", code |-> c, exc |-> "none"]
Raise(e) == [kind |-> "raise", code |-> 0, exc |-> e]

NoFailure == [stage |-> "none", exc |-> "none"]

(* ------------- components driven by main() (utils package) ------------ *)

\* VariantProcessor.filter_by_variant_frequency: keep the loci whose variant
\* occurs in at least min_var samples.
Frequency(presence) == Cardinality({s \in DOMAIN presence : presence[s]})

filter_by_variant_frequency(df, min_var) ==
    [l \in {k \in DOMAIN df : Frequency(df[k]) >= min_var} |-> df[l]]

\* ContingencyBuilder: only the samples present in both vectors contribute.
SharedSamples(presence, trait_samples) == DOMAIN presence \cap trait_samples

\* The variant margin of the table over the shared samples (the phenotype
\* states of a trait are tallied by the phenotype collaborator's encoding,
\* which the margins do not depend on).
Contingency(presence, trait_samples) ==
    LET shared == SharedSamples(presence, trait_samples)
    IN  [present |-> Cardinality({s \in shared : presence[s]}),
         absent |-> Cardinality({s \in shared : ~presence[s]})]

\* FisherExactTest.generate fails when some (locus, trait) pair shares no sample.
Misaligned(df, traits) ==
    \E t \in DOMAIN traits : \E l \in DOMAIN df :
        SharedSamples(df[l], traits[t]) = {}

generate(df, traits) ==
    [t \in DOMAIN traits |-> [l \in DOMAIN df |-> Contingency(df[l], traits[t])]]

\* ExactTestEngine: a table with a zero margin carries no evidence (p = 1.0);
\* any other table gets a p-value of the exact test.
Degenerate(table) == table.present = 0 \/ table.absent = 0

PossiblePValues(table) == IF Degenerate(table) THEN {1000} ELSE PValues

compute_p_values(tables, df) ==
    {pv \in [DOMAIN tables -> [DOMAIN df -> PValues \cup {1000}]] :
        \A t \in DOMAIN tables : \A l \in DOMAIN df :
            pv[t][l] \in PossiblePValues(tables[t][l])}

\* CrossTraitReducer: per locus the minimum p-value over the traits tested,
\* ties going to the first trait in input order.
TestedLoci(pv) == UNION {DOMAIN pv[t] : t \in DOMAIN pv}

TraitsOf(pv, l) == {t \in DOMAIN pv : l \in DOMAIN pv[t]}

merge_and_compute_lowest_p_value(pv) ==
    [l \in TestedLoci(pv) |->
        LET m == Min({pv[t][l] : t \in TraitsOf(pv, l)})
        IN  [p |-> m,
             trait |-> Min({t \in TraitsOf(pv, l) : pv[t][l] = m}),
             locus_id |-> 0]]

\* LocusIdentifier: the identifier is derived from the locus key alone.
LocusId(key) == 100 + key

add_locus_id_column(df) == [l \in DOMAIN df |-> [df[l] EXCEPT !.locus_id = LocusId(l)]]

\* ProcessPredector.merge_with_fisher: inner join on the locus key.
merge_with_fisher(pred, fisher_df) ==
    [l \in DOMAIN pred \cap DOMAIN fisher_df |->
        [locus_id |-> fisher_df[l].locus_id, p |-> fisher_df[l].p,
         trait |-> fisher_df[l].trait, cys |-> pred[l].cys,
         len |-> pred[l].len, score |-> pred[l].score, known |-> FALSE]]

\* EffectorAnnotator.add_known_effectors
add_known_effectors(df, known) ==
    [l \in DOMAIN df |-> [df[l] EXCEPT !.known = (l \in known)]]

\* Finalizer.rank_known_effectors: four conjunctive thresholds, then a sort
\* by p-value with the locus identifier breaking ties; None when nothing is left.
Passes(row, cyst_threshold, max_residue_length, min_effector_score, max_p_value) ==
    /\ row.cys >= cyst_threshold
    /\ row.len <= max_residue_length
    /\ row.score >= min_effector_score
    /\ row.p <= max_p_value

Before(a, b) == a.p < b.p \/ (a.p = b.p /\ a.locus_id <= b.locus_id)

RECURSIVE SortRows(_, _)
SortRows(df, keys) ==
    IF keys = {} THEN <<>>
    ELSE LET first == CHOOSE l \in keys : \A k \in keys : Before(df[l], df[k])
         IN  <<df[first]>> \o SortRows(df, keys \ {first})

rank_known_effectors(df, cyst_threshold, max_residue_length, min_effector_score, max_p_value) ==
    LET keep == {l \in DOMAIN df :
                    Passes(df[l], cyst_threshold, max_residue_length,
                           min_effector_score, max_p_value)}
    IN  IF keep = {} THEN None ELSE DataFrame(SortRows(df, keep))

(* ------------------------- control flow of main() --------------------- *)

\* The stage operations in the order main() invokes them.
MainOrder ==
    <<"process_data", "load_data", "filter_by_variant_frequency", "generate",
      "compute_p_values", "merge_and_compute_lowest_p_value",
      "add_locus_id_column", "load_data_predector", "merge_with_fisher",
      "add_known_effectors", "rank_known_effectors", "save_phenotype",
      "save_variant", "save_hypergeo", "save_predector", "save_isoform_list",
      "save_filtered_loci_only">>

IndexOf(op) == CHOOSE i \in 1..Len(MainOrder) : MainOrder[i] = op

IntermediateSaves == {"save_phenotype", "save_variant", "save_hypergeo"}
FinalSaves == {"save_predector", "save_isoform_list", "save_filtered_loci_only"}

\* Variants of the control flow: the exact test run before the tables exist,
\* the final outputs guarded by --save, the phenotype tables saved eagerly,
\* the reduction run before the p-values exist.
SuccDefault(op) == MainOrder[IndexOf(op) + 1]

SuccSwapped(op, save) ==
    IF op = "save_filtered_loci_only" THEN "done"
    ELSE IF op = "rank_known_effectors" /\ ~save THEN "save_predector"
    ELSE IF op = "filter_by_variant_frequency" THEN "compute_p_values"
    ELSE IF op = "compute_p_values" THEN "generate"
    ELSE IF op = "generate" THEN "merge_and_compute_lowest_p_value"
    ELSE SuccDefault(op)

SuccFinalsGuarded(op, save) ==
    IF op = "save_filtered_loci_only" THEN "done"
    ELSE IF op = "rank_known_effectors" /\ ~save THEN "done"
    ELSE SuccDefault(op)

SuccEagerSave(op, save) ==
    IF op = "save_filtered_loci_only" THEN "done"
    ELSE IF op = "process_data" /\ save THEN "save_phenotype"
    ELSE IF op = "save_phenotype" THEN "load_data"
    ELSE IF op = "rank_known_effectors"
         THEN (IF save THEN "save_variant" ELSE "save_predector")
    ELSE SuccDefault(op)

SuccReduceEarly(op, save) ==
    IF op = "save_filtered_loci_only" THEN "done"
    ELSE IF op = "rank_known_effectors" /\ ~save THEN "save_predector"
    ELSE IF op = "generate" THEN "merge_and_compute_lowest_p_value"
    ELSE IF op = "merge_and_compute_lowest_p_value" THEN "compute_p_values"
    ELSE IF op = "compute_p_values" THEN "add_locus_id_column"
    ELSE SuccDefault(op)

\* The statement reached when op completes without raising.
Succ(op, save) ==
    IF op = "save_filtered_loci_only" THEN "done"
    ELSE IF op = "rank_known_effectors" /\ ~save THEN "save_predector"
    ELSE SuccDefault(op)

\* Variants of the call: two thresholds passed in each other's place.
RankCallScoreAsP(a, df) ==
    rank_known_effectors(df, a.cyst, a.total_aa, a.p_value, a.pred_score)

RankCallCystAsLength(a, df) ==
    rank_known_effectors(df, a.total_aa, a.cyst, a.pred_score, a.p_value)

\* finalizer.rank_known_effectors(cyst_threshold=args.cyst, ...)
RankCall(a, df) ==
    rank_known_effectors(df, a.cyst, a.total_aa, a.pred_score, a.p_value)

\* Variant of the report: the test for None inverted.
RankingReportInverted(result) ==
    IF result = None THEN "Known effector ranking:"
    ELSE "No known effectors passed the filtering criteria."

\* if known_ranked is not None: ... else: ...
RankingReport(result) ==
    IF result # None THEN "Known effector ranking:"
    ELSE "No known effectors passed the filtering criteria."

\* Variant: the Fisher stage wrapped in a try of its own.
ErrorLabelFisher(op) ==
    CASE op = "process_data" -> "[Phenotype Error]"
      [] op \in {"load_data", "filter_by_variant_frequency"} -> "[Variant Error]"
      [] op \in {"generate", "compute_p_values"} -> "[Fisher Error]"
      [] op = "rank_known_effectors" -> "[Finalization Error]"
      [] op = "save_phenotype" -> "[Save Error - Phenotype]"
      [] op = "save_variant" -> "[Save Error - Variant]"
      [] op = "save_hypergeo" -> "[Save Error - Hypergeometric]"
      [] op = "save_predector" -> "[Save Error - Predector]"
      [] op = "save_isoform_list" -> "[Save Error - Isoform List]"
      [] op = "save_filtered_loci_only" -> "[Save Error - Filtered Loci]"
      [] OTHER -> "none"

\* The message of the except clause enclosing op, "none" when no try encloses it.
ErrorLabel(op) ==
    CASE op = "process_data" -> "[Phenotype Error]"
      [] op \in {"load_data", "filter_by_variant_frequency"} -> "[Variant Error]"
      [] op = "rank_known_effectors" -> "[Finalization Error]"
      [] op = "save_phenotype" -> "[Save Error - Phenotype]"
      [] op = "save_variant" -> "[Save Error - Variant]"
      [] op = "save_hypergeo" -> "[Save Error - Hypergeometric]"
      [] op = "save_predector" -> "[Save Error - Predector]"
      [] op = "save_isoform_list" -> "[Save Error - Isoform List]"
      [] op = "save_filtered_loci_only" -> "[Save Error - Filtered Loci]"
      [] OTHER -> "none"

\* The file a save operation writes.
OutputFile(op) ==
    CASE op = "save_phenotype" -> "phenotype tables"
      [] op = "save_variant" -> "0_filtered_combined_variants.txt"
      [] op = "save_hypergeo" -> "4_hypergeo_data"
      [] op = "save_predector" -> "8_pred_fisher_merged_dataset.txt"
      [] op = "save_isoform_list" -> "complete_isoform_list.txt"
      [] op = "save_filtered_loci_only" -> "filtered_loci_list.txt"

At(op) == pc = op /\ outcome.kind = "running"

\* op completed: main() moves on, printing msgs.
Completes(op, msgs) ==
    /\ calls' = Append(calls, op)
    /\ printed' = printed \o msgs
    /\ pc' = Succ(op, args.save)
    /\ UNCHANGED <<outcome, failed>>

\* Variants of the except clauses: the label printed without the return, and
\* a return of 0.
RaisesWithoutReturn(op, e) ==
    /\ calls' = Append(calls, op)
    /\ failed' = [stage |-> op, exc |-> e]
    /\ IF ErrorLabel(op) # "none"
       THEN /\ printed' = Append(printed, ErrorLabel(op))
            /\ outcome' = outcome
            /\ pc' = Succ(op, args.save)
       ELSE /\ printed' = printed
            /\ outcome' = Raise(e)
            /\ pc' = "exit"
    /\ UNCHANGED <<saved, processed_traits, variant_df, filtered_df,
                   hypergeo_tables, pvalues, lowest_p, pred_df, merged_df,
                   annotated_df, known_ranked>>

RaisesReturnsZero(op, e) ==
    /\ calls' = Append(calls, op)
    /\ failed' = [stage |-> op, exc |-> e]
    /\ pc' = "exit"
    /\ IF ErrorLabel(op) # "none"
       THEN printed' = Append(printed, ErrorLabel(op)) /\ outcome' = Return(0)
       ELSE printed' = printed /\ outcome' = Raise(e)
    /\ UNCHANGED <<saved, processed_traits, variant_df, filtered_df,
                   hypergeo_tables, pvalues, lowest_p, pred_df, merged_df,
                   annotated_df, known_ranked>>

\* op raised e: an enclosing except prints its label and returns 1, otherwise
\* the exception leaves main().
Raises(op, e) ==
    /\ calls' = Append(calls, op)
    /\ failed' = [stage |-> op, exc |-> e]
    /\ pc' = "exit"
    /\ IF ErrorLabel(op) # "none"
       THEN printed' = Append(printed, ErrorLabel(op)) /\ outcome' = Return(1)
       ELSE printed' = printed /\ outcome' = Raise(e)
    /\ UNCHANGED <<saved, processed_traits, variant_df, filtered_df,
                   hypergeo_tables, pvalues, lowest_p, pred_df, merged_df,
                   annotated_df, known_ranked>>

\* Exceptions an operation can raise on malformed tables or failing I/O.
Exceptions == {"Exception"}

(* ------------------------------ pipeline ------------------------------ *)

PredectorInputs ==
    {(1 :> [cys |-> 4, len |-> 300, score |-> 70]) @@
     (2 :> [cys |-> 3, len |-> 120, score |-> 90]),
     (2 :> [cys |-> 6, len |-> 301, score |-> 80])}

KnownEffectors == {1}

Init ==
    /\ pc = "process_data"
    /\ args \in [save : BOOLEAN, min_variant : 1..MaxMinVariant,
                  cyst : {DefaultCyst}, total_aa : {DefaultTotalAA},
                  pred_score : {DefaultPredScore}, p_value : {DefaultPValue}]
    /\ calls = <<>>
    /\ printed = <<>>
    /\ saved = <<>>
    /\ outcome = Running
    /\ failed = NoFailure
    /\ in_traits \in [Traits -> SUBSET Samples]
    /\ \E ids \in SUBSET Samples : in_variants \in [Loci -> [ids -> BOOLEAN]]
    /\ in_predector \in PredectorInputs
    /\ in_known = KnownEffectors
    /\ processed_traits = <<>>
    /\ variant_df = <<>>
    /\ filtered_df = <<>>
    /\ hypergeo_tables = <<>>
    /\ pvalues = <<>>
    /\ lowest_p = <<>>
    /\ pred_df = <<>>
    /\ merged_df = <<>>
    /\ annotated_df = <<>>
    /\ known_ranked = Unset

\* try: phenotype_processor.process_data(...)
ProcessPhenotypes ==
    /\ At("process_data")
    /\ \/ /\ Completes("process_data", <<"Successfully processed traits">>)
          /\ processed_traits' = in_traits
          /\ UNCHANGED <<saved, variant_df, filtered_df, hypergeo_tables, pvalues,
                         lowest_p, pred_df, merged_df, annotated_df, known_ranked>>
       \/ \E e \in Exceptions : Raises("process_data", e)
    /\ UNCHANGED inputs

\* try: variant_processed.load_data()
LoadVariants ==
    /\ At("load_data")
    /\ \/ /\ Completes("load_data", <<>>)
          /\ variant_df' = in_variants
          /\ UNCHANGED <<saved, processed_traits, filtered_df, hypergeo_tables,
                         pvalues, lowest_p, pred_df, merged_df, annotated_df,
                         known_ranked>>
       \/ \E e \in Exceptions : Raises("load_data", e)
    /\ UNCHANGED inputs

\* variant_processed.filter_by_variant_frequency(min_var=args.min_variant)
FilterVariants ==
    /\ At("filter_by_variant_frequency")
    /\ \/ /\ Completes("filter_by_variant_frequency", <<>>)
          /\ filtered_df' = filter_by_variant_frequency(variant_df, args.min_variant)
          /\ UNCHANGED <<saved, processed_traits, variant_df, hypergeo_tables,
                         pvalues, lowest_p, pred_df, merged_df, annotated_df,
                         known_ranked>>
       \/ \E e \in Exceptions : Raises("filter_by_variant_frequency", e)
    /\ UNCHANGED inputs

\* fisher = FisherExactTest(trait_data=..., variant_df=...); fisher.generate()
FisherGenerate ==
    /\ At("generate")
    /\ \/ /\ ~Misaligned(filtered_df, processed_traits)
          /\ Completes("generate", <<>>)
          /\ hypergeo_tables' = generate(filtered_df, processed_traits)
          /\ UNCHANGED <<saved, processed_traits, variant_df, filtered_df,
                         pvalues, lowest_p, pred_df, merged_df, annotated_df,
                         known_ranked>>
       \/ /\ Misaligned(filtered_df, processed_traits)
          /\ Raises("generate", "DataAlignmentError")
       \/ \E e \in Exceptions : Raises("generate", e)
    /\ UNCHANGED inputs

\* fisher.compute_p_values()
FisherComputePValues ==
    /\ At("compute_p_values")
    /\ \/ /\ Completes("compute_p_values", <<>>)
          /\ pvalues' \in compute_p_values(hypergeo_tables, filtered_df)
          /\ UNCHANGED <<saved, processed_traits, variant_df, filtered_df,
                         hypergeo_tables, lowest_p, pred_df, merged_df,
                         annotated_df, known_ranked>>
       \/ \E e \in Exceptions : Raises("compute_p_values", e)
    /\ UNCHANGED inputs

\* fisher.merge_and_compute_lowest_p_value()
FisherLowestPValue ==
    /\ At("merge_and_compute_lowest_p_value")
    /\ \/ /\ Completes("merge_and_compute_lowest_p_value", <<>>)
          /\ lowest_p' = merge_and_compute_lowest_p_value(pvalues)
          /\ UNCHANGED <<saved, processed_traits, variant_df, filtered_df,
                         hypergeo_tables, pvalues, pred_df, merged_df,
                         annotated_df, known_ranked>>
       \/ \E e \in Exceptions : Raises("merge_and_compute_lowest_p_value", e)
    /\ UNCHANGED inputs

\* fisher.add_locus_id_column()
FisherLocusId ==
    /\ At("add_locus_id_column")
    /\ \/ /\ Completes("add_locus_id_column", <<>>)
          /\ lowest_p' = add_locus_id_column(lowest_p)
          /\ UNCHANGED <<saved, processed_traits, variant_df, filtered_df,
                         hypergeo_tables, pvalues, pred_df, merged_df,
                         annotated_df, known_ranked>>
       \/ \E e \in Exceptions : Raises("add_locus_id_column", e)
    /\ UNCHANGED inputs

\* pred = ProcessPredector(...); pred.load_data_predector()
LoadPredector ==
    /\ At("load_data_predector")
    /\ \/ /\ Completes("load_data_predector", <<>>)
          /\ pred_df' = in_predector
          /\ UNCHANGED <<saved, processed_traits, variant_df, filtered_df,
                         hypergeo_tables, pvalues, lowest_p, merged_df,
                         annotated_df, known_ranked>>
       \/ \E e \in Exceptions : Raises("load_data_predector", e)
    /\ UNCHANGED inputs

\* pred.merge_with_fisher(fisher)
MergePredector ==
    /\ At("merge_with_fisher")
    /\ \/ /\ Completes("merge_with_fisher", <<>>)
          /\ merged_df' = merge_with_fisher(pred_df, lowest_p)
          /\ UNCHANGED <<saved, processed_traits, variant_df, filtered_df,
                         hypergeo_tables, pvalues, lowest_p, pred_df,
                         annotated_df, known_ranked>>
       \/ \E e \in Exceptions : Raises("merge_with_fisher", e)
    /\ UNCHANGED inputs

\* effector_annotator = EffectorAnnotator(...); effector_annotator.add_known_effectors()
AnnotateEffectors ==
    /\ At("add_known_effectors")
    /\ \/ /\ Completes("add_known_effectors", <<>>)
          /\ annotated_df' = add_known_effectors(merged_df, in_known)
          /\ UNCHANGED <<saved, processed_traits, variant_df, filtered_df,
                         hypergeo_tables, pvalues, lowest_p, pred_df, merged_df,
                         known_ranked>>
       \/ \E e \in Exceptions : Raises("add_known_effectors", e)
    /\ UNCHANGED inputs

\* try: finalizer = Finalizer(...); known_ranked = finalizer.rank_known_effectors(...)
RankEffectors ==
    /\ At("rank_known_effectors")
    /\ \/ /\ known_ranked' = RankCall(args, annotated_df)
          /\ Completes("rank_known_effectors", <<RankingReport(known_ranked')>>)
          /\ UNCHANGED <<saved, processed_traits, variant_df, filtered_df,
                         hypergeo_tables, pvalues, lowest_p, pred_df, merged_df,
                         annotated_df>>
       \/ \E e \in Exceptions : Raises("rank_known_effectors", e)
    /\ UNCHANGED inputs

\* A save operation: the file is written, or the operation raises.
Save(op, msgs) ==
    /\ \/ /\ Completes(op, msgs)
          /\ saved' = Append(saved, OutputFile(op))
          /\ UNCHANGED <<processed_traits, variant_df, filtered_df,
                         hypergeo_tables, pvalues, lowest_p, pred_df, merged_df,
                         annotated_df, known_ranked>>
       \/ \E e \in Exceptions : Raises(op, e)
    /\ UNCHANGED inputs

\* if args.save: phenotype_processor.save_processed_data(...)
SavePhenotype ==
    /\ At("save_phenotype")
    /\ Save("save_phenotype", <<>>)

\* variant_processed.save_processed_data(...)
SaveVariant ==
    /\ At("save_variant")
    /\ Save("save_variant", <<>>)

\* fisher.save_processed_data()
SaveHypergeo ==
    /\ At("save_hypergeo")
    /\ Save("save_hypergeo", <<>>)

\* pred.save_processed_data(...)
SavePredector ==
    /\ At("save_predector")
    /\ Save("save_predector", <<"Saved: 8_pred_fisher_merged_dataset.txt">>)

\* effector_annotator.save(...)
SaveIsoformList ==
    /\ At("save_isoform_list")
    /\ Save("save_isoform_list", <<"Saved: complete_isoform_list.txt">>)

\* finalizer.save_filtered_loci_only(...)
SaveFilteredLoci ==
    /\ At("save_filtered_loci_only")
    /\ Save("save_filtered_loci_only", <<"Saved: filtered_loci_list.txt">>)

\* print("Processing complete."); return 0
Finish ==
    /\ At("done")
    /\ printed' = Append(printed, "Processing complete.")
    /\ outcome' = Return(0)
    /\ pc' = "exit"
    /\ UNCHANGED <<calls, saved, failed, processed_traits, variant_df,
                   filtered_df, hypergeo_tables, pvalues, lowest_p, pred_df,
                   merged_df, annotated_df, known_ranked>>
    /\ UNCHANGED inputs

Next ==
    \/ ProcessPhenotypes
    \/ LoadVariants
    \/ FilterVariants
    \/ FisherGenerate
    \/ FisherComputePValues
    \/ FisherLowestPValue
    \/ FisherLocusId
    \/ LoadPredector
    \/ MergePredector
    \/ AnnotateEffectors
    \/ RankEffectors
    \/ SavePhenotype
    \/ SaveVariant
    \/ SaveHypergeo
    \/ SavePredector
    \/ SaveIsoformList
    \/ SaveFilteredLoci
    \/ Finish

Spec == Init /\ [][Next]_vars

(* ------------- the rank filter on arbitrary joined tables ------------- *)

Blank ==
    /\ calls = <<>>
    /\ printed = <<>>
    /\ saved = <<>>
    /\ outcome = Running
    /\ failed = NoFailure
    /\ in_traits = <<>>
    /\ in_variants = <<>>
    /\ in_predector = <<>>
    /\ in_known = {}
    /\ processed_traits = <<>>
    /\ variant_df = <<>>
    /\ filtered_df = <<>>
    /\ hypergeo_tables = <<>>
    /\ pred_df = <<>>
    /\ merged_df = <<>>
    /\ known_ranked = Unset

CandidateRows(l) ==
    [locus_id : {LocusId(l)}, p : Levels, trait : {1}, cys : Levels,
     len : Levels, score : Levels, known : {FALSE}]

InitRank ==
    /\ Blank
    /\ pc = "rank"
    /\ args \in [save : {FALSE}, min_variant : {1}, cyst : Levels,
                  total_aa : Levels, pred_score : Levels, p_value : Levels]
    /\ pvalues = <<>>
    /\ lowest_p = <<>>
    /\ \E joined \in SUBSET Loci :
          annotated_df \in {df \in [joined -> UNION {CandidateRows(l) : l \in joined}] :
                               \A l \in joined : df[l].locus_id = LocusId(l)}

Rank ==
    /\ pc = "rank"
    /\ known_ranked' = RankCall(args, annotated_df)
    /\ pc' = "ranked"
    /\ UNCHANGED <<args, calls, printed, saved, outcome, failed, in_traits,
                   in_variants, in_predector, in_known, processed_traits,
                   variant_df, filtered_df, hypergeo_tables, pvalues, lowest_p,
                   pred_df, merged_df, annotated_df>>

SpecRank == InitRank /\ [][Rank]_vars

(* ------------------------------ properties ---------------------------- *)

Range(seq) == {seq[i] : i \in DOMAIN seq}

Last(seq) == seq[Len(seq)]

Position(op) == CHOOSE i \in 1..Len(MainOrder) : MainOrder[i] = op

CaughtStages ==
    {"process_data", "load_data", "filter_by_variant_frequency",
     "rank_known_effectors", "save_phenotype", "save_variant", "save_hypergeo",
     "save_predector", "save_isoform_list", "save_filtered_loci_only"}

PropagatingStages ==
    {"generate", "compute_p_values", "merge_and_compute_lowest_p_value",
     "add_locus_id_column", "load_data_predector", "merge_with_fisher",
     "add_known_effectors"}

IntermediateFiles ==
    <<"phenotype tables", "0_filtered_combined_variants.txt", "4_hypergeo_data">>

FinalFiles ==
    <<"8_pred_fisher_merged_dataset.txt", "complete_isoform_list.txt",
      "filtered_loci_list.txt">>

\* C1: once a stage has failed, the failing operation is the last one invoked in
\* the run: no operation of a later stage has been invoked, nothing is saved
\* after the failure, and main() has stopped.
C1_FailureAbortsLaterStages ==
    failed.stage # "none" =>
        /\ Last(calls) = failed.stage
        /\ \A i \in DOMAIN calls : Position(calls[i]) <= Position(failed.stage)
        /\ outcome.kind # "running"
        /\ pc = "exit"

C1_Witness ==
    /\ failed.stage = "filter_by_variant_frequency"
    /\ calls = <<"process_data", "load_data", "filter_by_variant_frequency">>

\* C2: when the ranking completes and no row of the annotated table passes the
\* four thresholds, rank_known_effectors has returned None, the "no known
\* effectors passed" message is printed and no finalization error is reported,
\* the finalization stage has not failed, and right after it main() is still
\* running at the first output stage.
NoRowPasses ==
    \A l \in DOMAIN annotated_df :
        ~ /\ annotated_df[l].cys >= args.cyst
          /\ annotated_df[l].len <= args.total_aa
          /\ annotated_df[l].score >= args.pred_score
          /\ annotated_df[l].p <= args.p_value

RankingCompleted ==
    /\ "rank_known_effectors" \in Range(calls)
    /\ failed.stage # "rank_known_effectors"

C2_EmptyResultIsNotAFailure ==
    (RankingCompleted /\ NoRowPasses) =>
        /\ known_ranked = None
        /\ "No known effectors passed the filtering criteria." \in Range(printed)
        /\ "Known effector ranking:" \notin Range(printed)
        /\ "[Finalization Error]" \notin Range(printed)
        /\ Last(calls) = "rank_known_effectors" =>
               /\ outcome = Running
               /\ pc = IF args.save THEN "save_phenotype" ELSE "save_predector"

C2_Witness ==
    /\ known_ranked = None
    /\ DOMAIN annotated_df # {}
    /\ outcome = Return(0)
    /\ Len(saved) >= 3

\* C3 as stated: whatever stage fails, the caller of main() observes the
\* exception that the stage raised.
C3_EveryFailurePropagates ==
    failed.stage # "none" => outcome = Raise(failed.exc)

\* C3: a failure of a Fisher step, of the predector load or merge, or of the
\* annotation reaches the caller of main() as the exception the stage raised; a
\* failure of phenotype processing, variant processing, ranking or a save step
\* is caught in main(), which prints the stage's error label and returns 1.
C3_PropagatesOrReturnsOne ==
    failed.stage # "none" =>
        /\ failed.stage \in PropagatingStages \cup CaughtStages
        /\ failed.stage \in PropagatingStages =>
               outcome = Raise(failed.exc)
        /\ failed.stage \in CaughtStages =>
               /\ outcome = Return(1)
               /\ printed # <<>>
               /\ Last(printed) \in
                      {"[Phenotype Error]", "[Variant Error]", "[Finalization Error]",
                       "[Save Error - Phenotype]", "[Save Error - Variant]",
                       "[Save Error - Hypergeometric]", "[Save Error - Predector]",
                       "[Save Error - Isoform List]", "[Save Error - Filtered Loci]"}

C3_Witness ==
    /\ failed = [stage |-> "generate", exc |-> "DataAlignmentError"]
    /\ outcome = Raise("DataAlignmentError")

\* C4: when generate fails with DataAlignmentError (a locus and a trait of its
\* inputs share no sample id), the exception leaves main() at once and no
\* output file has been saved.
C4_AlignmentErrorSavesNothing ==
    (failed.stage = "generate" /\ failed.exc = "DataAlignmentError") =>
        /\ \E t \in DOMAIN processed_traits : \E l \in DOMAIN filtered_df :
               DOMAIN filtered_df[l] \cap processed_traits[t] = {}
        /\ saved = <<>>
        /\ outcome.kind = "raise"
        /\ pc = "exit"
        /\ Last(calls) = "generate"

C4_Witness ==
    /\ failed.stage = "generate"
    /\ failed.exc = "DataAlignmentError"
    /\ args.save
    /\ DOMAIN filtered_df = Loci

\* C5: the operations invoked so far are, without repetition and without a gap,
\* the first operations of the fixed order
\* process_data, load_data, filter_by_variant_frequency, generate,
\* compute_p_values, merge_and_compute_lowest_p_value, add_locus_id_column,
\* load_data_predector, merge_with_fisher, add_known_effectors,
\* rank_known_effectors.
CoreOrder ==
    <<"process_data", "load_data", "filter_by_variant_frequency", "generate",
      "compute_p_values", "merge_and_compute_lowest_p_value",
      "add_locus_id_column", "load_data_predector", "merge_with_fisher",
      "add_known_effectors", "rank_known_effectors">>

C5_StrictLinearOrder ==
    /\ \A i \in DOMAIN calls : i <= Len(CoreOrder) => calls[i] = CoreOrder[i]
    /\ \A i, j \in DOMAIN calls : i # j => calls[i] # calls[j]
    /\ \A i \in DOMAIN calls : i > Len(CoreOrder) => calls[i] \notin Range(CoreOrder)

C5_Witness ==
    /\ calls = CoreOrder
    /\ failed = NoFailure
    /\ known_ranked.tag = "DataFrame"

\* C6: every row of the rank filter's output is a row of its input that has
\* cysteine count >= args.cyst, residue length <= args.total_aa, prediction
\* score >= args.pred_score and p-value <= args.p_value; an input row failing
\* any one of the four is not in the output.
FailsSome(row) ==
    \/ row.cys < args.cyst
    \/ row.len > args.total_aa
    \/ row.score < args.pred_score
    \/ row.p > args.p_value

C6_OutputMeetsAllThresholds ==
    pc = "ranked" =>
        /\ \A row \in Range(known_ranked.rows) :
               /\ \E l \in DOMAIN annotated_df : annotated_df[l] = row
               /\ row.cys >= args.cyst
               /\ row.len <= args.total_aa
               /\ row.score >= args.pred_score
               /\ row.p <= args.p_value
        /\ \A l \in DOMAIN annotated_df :
               FailsSome(annotated_df[l]) => annotated_df[l] \notin Range(known_ranked.rows)

C6_Witness ==
    /\ pc = "ranked"
    /\ Len(known_ranked.rows) = 1
    /\ Cardinality(DOMAIN annotated_df) = 2
    /\ \E l \in DOMAIN annotated_df :
          /\ annotated_df[l].cys < args.cyst
          /\ annotated_df[l].len <= args.total_aa
          /\ annotated_df[l].score >= args.pred_score
          /\ annotated_df[l].p <= args.p_value

\* C7: for the same joined table, a call with one threshold made stricter
\* (a higher cysteine minimum, a lower length maximum, a higher score minimum
\* or a lower p-value maximum) and the other three unchanged returns no more
\* rows than the call that was made.
StricterArgs(a) ==
    {[a EXCEPT !.cyst = v] : v \in {w \in Levels : w > a.cyst}}
    \cup {[a EXCEPT !.total_aa = v] : v \in {w \in Levels : w < a.total_aa}}
    \cup {[a EXCEPT !.pred_score = v] : v \in {w \in Levels : w > a.pred_score}}
    \cup {[a EXCEPT !.p_value = v] : v \in {w \in Levels : w < a.p_value}}

C7_StricterThresholdNeverAddsRows ==
    pc = "ranked" =>
        \A stricter \in StricterArgs(args) :
            Len(RankCall(stricter, annotated_df).rows) <= Len(known_ranked.rows)

C7_Witness ==
    /\ pc = "ranked"
    /\ Len(known_ranked.rows) = 2
    /\ \E stricter \in StricterArgs(args) :
          Len(RankCall(stricter, annotated_df).rows) = 1

\* C8: once the reduction has run, every locus with an association record has a
\* row whose p-value is the least of the locus's p-values over the traits and
\* whose trait is the first trait, in input order, with that p-value; a locus
\* without any association record has no row.
RecordTraits(l) == {t \in DOMAIN pvalues : l \in DOMAIN pvalues[t]}

ReductionDone ==
    /\ "merge_and_compute_lowest_p_value" \in Range(calls)
    /\ failed.stage # "merge_and_compute_lowest_p_value"

C8_LowestPValueFirstTrait ==
    ReductionDone =>
        \A l \in Loci :
            IF RecordTraits(l) = {} THEN l \notin DOMAIN lowest_p
            ELSE /\ l \in DOMAIN lowest_p
                 /\ lowest_p[l].trait \in RecordTraits(l)
                 /\ pvalues[lowest_p[l].trait][l] = lowest_p[l].p
                 /\ \A t \in RecordTraits(l) :
                        /\ lowest_p[l].p <= pvalues[t][l]
                        /\ t < lowest_p[l].trait => lowest_p[l].p < pvalues[t][l]

C8_Witness ==
    /\ ReductionDone
    /\ 1 \in DOMAIN lowest_p
    /\ 2 \notin DOMAIN lowest_p
    /\ pvalues[1][1] = 10
    /\ pvalues[2][1] = 10
    /\ lowest_p[1].trait = 1

\* C9: a run that returns 0 has saved the three final outputs, in the order
\* merged dataset, isoform list, filtered loci list, whether or not --save is
\* set; an intermediate output is saved only when --save is set and the
\* ranking has completed, and only before any final output.
IsIntermediate(f) == f \in Range(IntermediateFiles)

C9_FinalOutputsAlwaysSaved ==
    /\ outcome = Return(0) =>
           saved = (IF args.save THEN IntermediateFiles ELSE <<>>) \o FinalFiles
    /\ \A i \in DOMAIN saved :
           IsIntermediate(saved[i]) =>
               /\ args.save
               /\ RankingCompleted
               /\ \A j \in 1..i : IsIntermediate(saved[j])

C9_Witness ==
    /\ outcome = Return(0)
    /\ ~args.save
    /\ saved = FinalFiles

\* C10: main() returns 0 exactly when it has reported "Processing complete.",
\* and then no operation of the run has failed and every operation the run
\* had to attempt was invoked; after a failure caught in the phenotype,
\* variant, ranking or a save stage main() returns 1 and never reports
\* completion.
AttemptedOps(save) ==
    IF save THEN MainOrder
    ELSE SelectSeq(MainOrder, LAMBDA op : op \notin IntermediateSaves)

C10_ReturnZeroOnlyOnFullSuccess ==
    /\ outcome = Return(0) <=> "Processing complete." \in Range(printed)
    /\ outcome = Return(0) =>
           /\ failed = NoFailure
           /\ calls = AttemptedOps(args.save)
    /\ failed.stage \in CaughtStages =>
           /\ outcome = Return(1)
           /\ "Processing complete." \notin Range(printed)

C10_Witness ==
    /\ failed.stage = "save_isoform_list"
    /\ outcome = Return(1)
    /\ Len(saved) = 4

====
